---- MODULE Spec2Model ----
(***************************************************************************)
(* dialang: a diagram description language compiled to Graphviz text.      *)
(*                                                                         *)
(* Rust Strings are modelled as sequences of one-character strings, so     *)
(* that concatenation, contains('='), trim and to_lowercase are computed.  *)
(* One writeln! is one write to the sink; it is recorded as the format     *)
(* string it uses together with the values interpolated into it.           *)
(***************************************************************************)
EXTENDS Integers, Sequences, FiniteSets, TLC

VARIABLES
    \* ---- rendering of a Document (emitters.rs) ----
    doc,        \* the Doc handed to the emitters
    mode,       \* the emitter chosen: "DER" or "ORM"
    failAt,     \* the sink: 0 = every write succeeds, k > 0 = the k-th write fails
    renders,    \* the renders done so far: [mode, out, res]
    \* ---- one run of app (main.rs) ----
    tree,       \* the input file: grammar verdict and the pairs under `document`
    args,       \* Args: mode and output
    pc,         \* position of app
    idx,        \* parse_doc: index of the next top-level pair
    links,      \* parse_doc: links pushed so far
    defs,       \* parse_doc: defs pushed so far
    appRes,     \* result of app
    outFile,    \* the output file: <<>> = does not exist, <<content>> = exists
    stdout,     \* what was written to standard output
    \* ---- watch (main.rs) ----
    wpc,        \* position of watch
    input,      \* args.input as given on the command line
    content,    \* what the input file holds now
    rx,         \* events the watcher has sent and the loop has not received yet
    sent,       \* number of events sent so far
    handled,    \* the events the loop has received, in order
    runs,       \* log of the runs of app: what triggered it, how it ended
    \* ---- app with a file output: the pipes to and from `dot` ----
    ext,        \* extension of the output path
    apc,        \* position of app
    dpc,        \* position of the dot process
    graph,      \* the graph text the emitter writes
    nWritten,   \* how much of it the emitter has written
    stdinPipe,  \* bytes in the pipe to dot's stdin
    stdinOpen,  \* the write end of dot's stdin is open
    dotGot,     \* what dot has read
    image,      \* the bytes dot writes for this graph
    nDotWritten,\* how many of them dot has written
    dotSuccess, \* dot's exit status is success
    stdoutPipe, \* bytes in the pipe from dot's stdout
    imgFile,    \* the output file: <<>> = does not exist, <<content>> = exists
    imgRes      \* result of app

emitVars == <<doc, mode, failAt, renders>>
appVars == <<tree, args, pc, idx, links, defs, appRes, outFile, stdout>>
watchVars == <<wpc, input, content, rx, sent, handled, runs>>
dotVars == <<ext, apc, dpc, graph, nWritten, stdinPipe, stdinOpen, dotGot, image,
             nDotWritten, dotSuccess, stdoutPipe, imgFile, imgRes>>
vars == <<emitVars, appVars, watchVars, dotVars>>

---------------------------------------------------------------------------
(* Bounds *)

MaxDefs == 2
MaxLinks == 2
MaxRenders == 2
MaxStmts == 3
MaxEvents == 2
MaxGraph == 3
MaxImage == 3
PipeCap == 2

---------------------------------------------------------------------------
(* Strings *)

RECURSIVE Flatten(_)
Flatten(ss) == IF ss = <<>> THEN <<>> ELSE Head(ss) \o Flatten(Tail(ss))

Contains(s, c) == \E i \in 1..Len(s) : s[i] = c

LowerChar(c) == CASE c = "A" -> "a" [] c = "B" -> "b" [] OTHER -> c

ToLowercase(s) == [i \in 1..Len(s) |-> LowerChar(s[i])]

---------------------------------------------------------------------------
(* LinkN *)

LinkNs == {"One", "MaybeOne", "Many", "MaybeMany"}

\* one-or-many shown with the zero-or-many text
LinkNDisplayManyAsMaybeMany(n) ==
    CASE n = "One" -> <<"1">>
      [] n = "MaybeOne" -> <<"(", "0", ",", "1", ")">>
      [] n = "Many" -> <<"(", "0", ",", "N", ")">>
      [] n = "MaybeMany" -> <<"(", "0", ",", "N", ")">>

LinkNDisplay(n) ==
    CASE n = "One" -> <<"1">>
      [] n = "MaybeOne" -> <<"(", "0", ",", "1", ")">>
      [] n = "Many" -> <<"(", "1", ",", "N", ")">>
      [] n = "MaybeMany" -> <<"(", "0", ",", "N", ")">>

---------------------------------------------------------------------------
(* The sink *)

FmtDerNode == "{name} [label=< <TABLE border=0 cellborder=1 ..> <TR><TD colspan=2 bgcolor=gray>{name}</TD></TR>"
FmtDerField == "<TR><TD>{field_type}</TD><TD>{name}</TD></TR>"
FmtTableEnd == "</TABLE> >];"
FmtDiamond == "\t{id} [label=<{label}>];"
FmtDerTail == "\t{from} -- {id} [taillabel=<{from_count}>];"
FmtDerHead == "\t{id} -- {to}   [headlabel=<{to_count}>];"
FmtOrmNode == "{name} [label=< <TABLE border=1 ALIGN=LEFT cellborder=0 ..> <TR><TD colspan=2 border=1>{name}</TD></TR>"
FmtRowOpen == "<TR>"
FmtCell == "<TD align=LEFT>{field}</TD>"
FmtRowEnd == "</TR>"
FmtOrmEdge == "\t{from} -> {to} [headlabel=<{to_count}> labelangle=45 labeldistance=2.1];"

Line(fmt, a) == [fmt |-> fmt, args |-> a]

\* the writes of an emitter, in order, and whether it panics after the last
Emitted(lines, panics) == [lines |-> lines, panics |-> panics]

\* `?` after every writeln!: the first failing write ends the emitter
RunEmitter(e, k) ==
    IF k \in 1..Len(e.lines)
    THEN [out |-> SubSeq(e.lines, 1, k - 1), res |-> "IoErr"]
    ELSE [out |-> e.lines, res |-> IF e.panics THEN "Panic" ELSE "Ok"]

---------------------------------------------------------------------------
(* emit_der *)

LabelText(label) == IF label = <<>> THEN <<>> ELSE label[1]

DiamondId(link) ==
    link.from \o <<"_">> \o link.to \o <<"_">> \o LabelText(link.label)

DerField(field) ==
    Line(FmtDerField, <<field.field_type, field.name>>)

DerDef(def) ==
    <<Line(FmtDerNode, <<def.name, def.name>>)>>
    \o [i \in 1..Len(def.fields) |-> DerField(def.fields[i])]
    \o <<Line(FmtTableEnd, <<>>)>>

DerLink(link) ==
    << Line(FmtDiamond, <<DiamondId(link), LabelText(link.label)>>),
       Line(FmtDerTail,
            <<link.from, DiamondId(link), LinkNDisplay(link.from_count)>>),
       Line(FmtDerHead,
            <<DiamondId(link), link.to, LinkNDisplay(link.to_count)>>) >>

emit_der(d) ==
    Emitted(<< Line("graph {", <<>>), Line("node [shape=plaintext];", <<>>) >>
            \o Flatten([i \in 1..Len(d.defs) |-> DerDef(d.defs[i])])
            \o << Line("node [shape=diamond, fontsize=11];", <<>>) >>
            \o Flatten([i \in 1..Len(d.links) |-> DerLink(d.links[i])])
            \o << Line("}", <<>>) >>,
            FALSE)

---------------------------------------------------------------------------
(* emit_orm *)

table_fields(fields) ==
    << Line(FmtRowOpen, <<>>) >>
    \o [i \in 1..Len(fields) |-> Line(FmtCell, <<fields[i]>>)]
    \o << Line(FmtRowEnd, <<>>) >>

\* HashMap<&str, Vec<&Link>>: `get` is the map; `keys` is the order in which
\* an iteration would visit it, fixed by the hasher's random state `order`
DefLinksNew(d, order) ==
    LET present == {d.defs[i].name : i \in 1..Len(d.defs)}
    IN  [keys |-> SelectSeq(order, LAMBDA k : k \in present),
         get |-> [k \in present |-> <<>>]]

RECURSIVE DefLinksFill(_, _)
DefLinksFill(m, ls) ==
    IF ls = <<>> THEN [map |-> m, panics |-> FALSE]
    ELSE IF Head(ls).from \notin DOMAIN m.get
         THEN [map |-> m, panics |-> TRUE]
         ELSE DefLinksFill(
                [m EXCEPT !.get[Head(ls).from] = Append(@, Head(ls))],
                Tail(ls))

OrmFieldRow(field) ==
    table_fields(<< IF field.name = <<"i", "d">> THEN <<"p", "k">> ELSE <<>>,
                    <<"+">> \o field.name >>)

OrmLinkRow(link) ==
    table_fields(<< IF link.body.is_pk THEN <<"f", "k", "_", "p", "k">>
                                       ELSE <<"f", "k">>,
                    <<"+">> \o ToLowercase(link.to) \o <<"_", "i", "d">> >>)

OrmDef(def, m) ==
    <<Line(FmtOrmNode, <<def.name, def.name>>)>>
    \o Flatten([i \in 1..Len(def.fields) |-> OrmFieldRow(def.fields[i])])
    \o Flatten([i \in 1..Len(m.get[def.name]) |-> OrmLinkRow(m.get[def.name][i])])
    \o <<Line(FmtTableEnd, <<>>)>>

\* tables written while iterating over the index instead of over defs
OrmTablesByIndex(d, m) ==
    Flatten([j \in 1..Len(m.keys) |->
               OrmDef(d.defs[CHOOSE i \in 1..Len(d.defs) : d.defs[i].name = m.keys[j]], m)])

OrmTables(d, m) == Flatten([i \in 1..Len(d.defs) |-> OrmDef(d.defs[i], m)])

OrmEdge(link) ==
    Line(FmtOrmEdge, <<link.from, link.to, LinkNDisplay(link.to_count)>>)

OrmHeader ==
    << Line("digraph {", <<>>), Line("graph [layout=dot];", <<>>),
       Line("node [shape=plaintext];", <<>>) >>

emit_orm(d, order) ==
    LET filled == DefLinksFill(DefLinksNew(d, order), d.links)
    IN  IF filled.panics
        THEN Emitted(OrmHeader, TRUE)
        ELSE Emitted(OrmHeader
                     \o OrmTables(d, filled.map)
                     \o [i \in 1..Len(d.links) |-> OrmEdge(d.links[i])]
                     \o << Line("}", <<>>) >>,
                     FALSE)

emitter(m, d, order) ==
    IF m = "DER" THEN emit_der(d) ELSE emit_orm(d, order)

---------------------------------------------------------------------------
(* Documents the emitters are run on *)

SeqsUpTo(S, n) == UNION {[1..k -> S] : k \in 0..n}

NameA == <<"A">>
NameAA == <<"A", "_", "A">>
NameB == <<"B">>
Names == {NameA, NameAA, NameB}

Field(t, n) == [field_type |-> t, name |-> n]

Def(n, fs) == [name |-> n, fields |-> fs]

Link(f, fc, pk, tc, t, l) ==
    [from |-> f, from_count |-> fc, body |-> [is_pk |-> pk],
     to_count |-> tc, to |-> t, label |-> l]

TInt == <<"i", "n", "t">>
TStr == <<"s", "t", "r">>
FId == <<"i", "d">>
FNm == <<"n", "m">>
LblX == <<"x">>

EmitDefs ==
    { Def(NameA, <<Field(TInt, FId), Field(TStr, FNm)>>),
      Def(NameAA, <<>>),
      Def(NameB, <<Field(TStr, FNm)>>) }

EmitLinks ==
    { Link(NameA, "One", FALSE, "MaybeMany", NameAA, <<>>),
      Link(NameAA, "MaybeOne", TRUE, "Many", NameA, <<>>),
      Link(NameA, "Many", TRUE, "One", NameB, <<LblX>>),
      Link(NameA, "One", FALSE, "One", NameB, <<LblX>>),
      Link(NameB, "MaybeMany", FALSE, "MaybeOne", NameA, <<LblX>>) }

Docs ==
    { [links |-> ls, defs |-> ds] :
        ls \in SeqsUpTo(EmitLinks, MaxLinks), ds \in SeqsUpTo(EmitDefs, MaxDefs) }

\* the iteration orders a HashMap over the names can have
Orders == {o \in [1..Cardinality(Names) -> Names] : \A i, j \in DOMAIN o : o[i] = o[j] => i = j}

---------------------------------------------------------------------------
(* Variables a specification does not use stay as they are here *)

IdleEmit ==
    /\ doc = [links |-> <<>>, defs |-> <<>>] /\ mode = "" /\ failAt = 0
    /\ renders = <<>>

IdleApp ==
    /\ tree = <<>> /\ args = <<>> /\ pc = "idle" /\ idx = 0
    /\ links = <<>> /\ defs = <<>> /\ appRes = "none"
    /\ outFile = <<>> /\ stdout = <<>>

IdleWatch ==
    /\ wpc = "idle" /\ input = <<>> /\ content = <<>> /\ rx = <<>> /\ sent = 0
    /\ handled = <<>> /\ runs = <<>>

IdleDot ==
    /\ ext = "" /\ apc = "idle" /\ dpc = "idle" /\ graph = <<>> /\ nWritten = 0
    /\ stdinPipe = <<>> /\ stdinOpen = FALSE /\ dotGot = <<>> /\ image = <<>>
    /\ nDotWritten = 0 /\ dotSuccess = FALSE /\ stdoutPipe = <<>>
    /\ imgFile = <<>> /\ imgRes = "none"

---------------------------------------------------------------------------
(* Rendering one Document, possibly several times *)

\* sinks: one that takes every write, one that fails on the 2nd write, one
\* that fails on the 5th
SinkFailures == {0, 2, 5}

Init ==
    /\ doc \in Docs
    /\ mode \in {"DER", "ORM"}
    /\ failAt \in SinkFailures
    /\ renders = <<>>
    /\ IdleApp /\ IdleWatch /\ IdleDot

Render(m) ==
    /\ mode = m
    /\ Len(renders) < MaxRenders
    /\ \E order \in Orders :
         renders' = Append(renders, RunEmitter(emitter(m, doc, order), failAt))
    /\ UNCHANGED <<doc, mode, failAt, appVars, watchVars, dotVars>>

RenderDer == Render("DER")

RenderOrm == Render("ORM")

Next == RenderDer \/ RenderOrm

Spec == Init /\ [][Next]_vars

---------------------------------------------------------------------------
(* The parse tree: what MyParser::parse(Rule::document, ..) hands over.    *)
(* A Pair has the rule that matched, the text it spans and its inner pairs *)

Pair(rule, text, inner) == [rule |-> rule, text |-> text, inner |-> inner]

PName(n) == Pair("name", n, <<>>)

PLinkN(t) == Pair("link_n", t, <<>>)

PBody(t) == Pair("ARROW_BODY", t, <<>>)

PLink(inner) == Pair("link", <<>>, inner)

PField(t, n) == Pair("field", <<>>, <<PName(t), PName(n)>>)

PDef(n, fields) == Pair("def", <<>>, <<PName(n)>> \o fields)

PEoi == Pair("EOI", <<>>, <<>>)

---------------------------------------------------------------------------
(* Parse *)

Ok(v) == [ok |-> TRUE, val |-> v]

Err(cause) == [ok |-> FALSE, cause |-> cause]

\* ensure_rule!
ExpectedGot(rule, tk) == Err("Expected " \o rule \o ", got " \o tk.rule)

RECURSIVE TrimStart(_)
TrimStart(s) ==
    IF s # <<>> /\ Head(s) = " " THEN TrimStart(Tail(s)) ELSE s

RECURSIVE TrimEnd(_)
TrimEnd(s) ==
    IF s # <<>> /\ s[Len(s)] = " " THEN TrimEnd(SubSeq(s, 1, Len(s) - 1)) ELSE s

Trim(s) == TrimEnd(TrimStart(s))

LinkNParse(tk) ==
    IF tk.rule # "link_n" THEN ExpectedGot("link_n", tk)
    ELSE LET t == Trim(tk.text)
         IN  CASE t = <<"1">> -> Ok("One")
               [] t = <<"1", "?">> -> Ok("MaybeOne")
               [] t = <<"n">> -> Ok("Many")
               [] t = <<"n", "?">> -> Ok("MaybeMany")

StringParse(tk) ==
    IF tk.rule # "name" THEN ExpectedGot("name", tk) ELSE Ok(tk.text)

\* is_pk only for the arrow body `==`
LinkBodyParseExact(tk) ==
    IF tk.rule # "ARROW_BODY" THEN ExpectedGot("ARROW_BODY", tk)
    ELSE Ok([is_pk |-> tk.text = <<"=", "=">>])

LinkBodyParse(tk) ==
    IF tk.rule # "ARROW_BODY" THEN ExpectedGot("ARROW_BODY", tk)
    ELSE Ok([is_pk |-> Contains(tk.text, "=")])

\* Pairs::next_item::<T> for the i-th call on the same Pairs
NextString(inner, i) ==
    IF i > Len(inner) THEN Err("Missing") ELSE StringParse(inner[i])

NextLinkN(inner, i) ==
    IF i > Len(inner) THEN Err("Missing") ELSE LinkNParse(inner[i])

NextLinkBody(inner, i) ==
    IF i > Len(inner) THEN Err("Missing") ELSE LinkBodyParse(inner[i])

LinkParse(tk) ==
    IF tk.rule # "link" THEN ExpectedGot("link", tk)
    ELSE LET from == NextString(tk.inner, 1)
             from_count == NextLinkN(tk.inner, 2)
             body == NextLinkBody(tk.inner, 3)
             to_count == NextLinkN(tk.inner, 4)
             to == NextString(tk.inner, 5)
             label == NextString(tk.inner, 6)
         IN  IF ~from.ok THEN from
             ELSE IF ~from_count.ok THEN from_count
             ELSE IF ~body.ok THEN body
             ELSE IF ~to_count.ok THEN to_count
             ELSE IF ~to.ok THEN to
             ELSE Ok([from |-> from.val, from_count |-> from_count.val,
                      body |-> body.val, to_count |-> to_count.val,
                      to |-> to.val,
                      label |-> IF label.ok THEN <<label.val>> ELSE <<>>])

FieldParse(tk) ==
    LET field_type == NextString(tk.inner, 1)
        name == NextString(tk.inner, 2)
    IN  IF ~field_type.ok THEN field_type
        ELSE IF ~name.ok THEN name
        ELSE Ok([field_type |-> field_type.val, name |-> name.val])

RECURSIVE FieldsParse(_, _)
FieldsParse(rest, fields) ==
    IF rest = <<>> THEN Ok(fields)
    ELSE LET f == FieldParse(Head(rest))
         IN  IF ~f.ok THEN f ELSE FieldsParse(Tail(rest), Append(fields, f.val))

DefParse(tk) ==
    IF tk.rule # "def" THEN ExpectedGot("def", tk)
    ELSE LET name == NextString(tk.inner, 1)
         IN  IF ~name.ok THEN name
             ELSE LET fields == FieldsParse(Tail(tk.inner), <<>>)
                  IN  IF ~fields.ok THEN fields
                      ELSE Ok([name |-> name.val, fields |-> fields.val])

---------------------------------------------------------------------------
(* Reading an emitter's output back *)

\* the indices of the lines of `out` written with format `fmt`, ascending
Positions(out, fmt) ==
    SelectSeq([i \in 1..Len(out) |-> i], LAMBDA i : out[i].fmt = fmt)

CountFmt(out, fmt) == Len(Positions(out, fmt))

\* the lines of the k-th table of an ORM output, header and end excluded
TableBody(out, k) ==
    SubSeq(out, Positions(out, FmtOrmNode)[k] + 1,
                Positions(out, FmtTableEnd)[k] - 1)

\* the rows of a table body, each the sequence of its cells
TableRows(body) ==
    LET opens == Positions(body, FmtRowOpen)
        ends == Positions(body, FmtRowEnd)
    IN  [r \in 1..Len(opens) |->
           [c \in 1..(ends[r] - opens[r] - 1) |-> body[opens[r] + c].args[1]]]

OutgoingLinks(ls, name) == SelectSeq(ls, LAMBDA l : l.from = name)

WritesSucceeded(r) == r.res # "IoErr"

---------------------------------------------------------------------------
(* Claims about the emitters, checked under Spec *)

\* C1: for every Document, dangling `from`/`to` included, the emitter returns
\* Ok whenever every write to the sink succeeds; the only failure is an I/O
\* error of the sink
C1_RenderOnlyFailsOnIo ==
    \A i \in DOMAIN renders :
        /\ renders[i].res \in {"Ok", "IoErr"}
        /\ WritesSucceeded(renders[i]) => renders[i].res = "Ok"

\* C2: emit_orm's output has exactly N table nodes and M directed edges, and
\* each table has as many rows as the entity has fields plus relationships
\* whose `from` is its name
C2_OrmCounts ==
    \A i \in DOMAIN renders :
        (mode = "ORM" /\ WritesSucceeded(renders[i])) =>
            LET out == renders[i].out
            IN  /\ CountFmt(out, FmtOrmNode) = Len(doc.defs)
                /\ CountFmt(out, FmtTableEnd) = Len(doc.defs)
                /\ CountFmt(out, FmtOrmEdge) = Len(doc.links)
                /\ \A k \in 1..Len(doc.defs) :
                     Len(TableRows(TableBody(out, k)))
                       = Len(doc.defs[k].fields)
                         + Len(OutgoingLinks(doc.links, doc.defs[k].name))

\* C3: emit_der's output has exactly N record nodes, 2M connecting edges (one
\* tail edge and one head edge per relationship) and as many distinct diamond
\* nodes as there are distinct (from, to, label) triples
C3_DerCounts ==
    \A i \in DOMAIN renders :
        (mode = "DER" /\ WritesSucceeded(renders[i])) =>
            LET out == renders[i].out
                ids == {out[p].args[1] : p \in {q \in 1..Len(out) : out[q].fmt = FmtDiamond}}
                triples == {<<doc.links[k].from, doc.links[k].to, doc.links[k].label>> :
                              k \in 1..Len(doc.links)}
            IN  /\ CountFmt(out, FmtDerNode) = Len(doc.defs)
                /\ CountFmt(out, FmtDerTail) = Len(doc.links)
                /\ CountFmt(out, FmtDerHead) = Len(doc.links)
                /\ \A k \in 1..Len(doc.links) :
                     /\ out[Positions(out, FmtDerTail)[k]].args[3]
                          = LinkNDisplay(doc.links[k].from_count)
                     /\ out[Positions(out, FmtDerHead)[k]].args[3]
                          = LinkNDisplay(doc.links[k].to_count)
                /\ Cardinality(ids) = Cardinality(triples)

\* C7: rendering leaves the Document as it is, and every render of the same
\* Document by the same emitter into the same sink gives the same bytes and
\* the same result, whatever the iteration order of the index
C7_RenderDeterministic ==
    [][ /\ doc' = doc
        /\ \A i \in DOMAIN renders' : renders'[i] = renders'[1] ]_vars

C7_Witness ==
    /\ mode = "ORM"
    /\ Len(renders) = 2
    /\ renders[2].res = "Ok"
    /\ Len(doc.defs) = 2 /\ doc.defs[1].name # doc.defs[2].name
    /\ Len(doc.links) = 2

---------------------------------------------------------------------------
(* parse_doc and app, for an output that is not an image *)

\* a statement that fails to parse is skipped and the loop goes on
ParseItemSkip(tk, ls, ds) ==
    CASE tk.rule = "link" ->
           LET r == LinkParse(tk)
           IN  [links |-> IF r.ok THEN Append(ls, r.val) ELSE ls, defs |-> ds,
                res |-> "next"]
      [] tk.rule = "def" ->
           LET r == DefParse(tk)
           IN  [links |-> ls, defs |-> IF r.ok THEN Append(ds, r.val) ELSE ds,
                res |-> "next"]
      [] tk.rule = "EOI" -> [links |-> ls, defs |-> ds, res |-> "break"]

\* links are put at the front of the list instead of pushed at its end
ParseItemPrepend(tk, ls, ds) ==
    CASE tk.rule = "link" ->
           LET r == LinkParse(tk)
           IN  IF r.ok THEN [links |-> <<r.val>> \o ls, defs |-> ds, res |-> "next"]
               ELSE [links |-> ls, defs |-> ds, res |-> r.cause]
      [] tk.rule = "def" ->
           LET r == DefParse(tk)
           IN  IF r.ok THEN [links |-> ls, defs |-> Append(ds, r.val), res |-> "next"]
               ELSE [links |-> ls, defs |-> ds, res |-> r.cause]
      [] tk.rule = "EOI" -> [links |-> ls, defs |-> ds, res |-> "break"]

\* parse_doc's loop body for one top-level pair
ParseItem(tk, ls, ds) ==
    CASE tk.rule = "link" ->
           LET r == LinkParse(tk)
           IN  IF r.ok THEN [links |-> Append(ls, r.val), defs |-> ds, res |-> "next"]
               ELSE [links |-> ls, defs |-> ds, res |-> r.cause]
      [] tk.rule = "def" ->
           LET r == DefParse(tk)
           IN  IF r.ok THEN [links |-> ls, defs |-> Append(ds, r.val), res |-> "next"]
               ELSE [links |-> ls, defs |-> ds, res |-> r.cause]
      [] tk.rule = "EOI" -> [links |-> ls, defs |-> ds, res |-> "break"]

\* statements of the input file, as the grammar hands them over
SDefA == PDef(NameA, <<PField(TInt, FId), PField(TStr, FNm)>>)
SDefB == PDef(NameB, <<>>)
SLink1 ==
    PLink(<<PName(NameA), PLinkN(<<"1", " ">>), PBody(<<"-", "-">>),
            PLinkN(<<"n", "?", " ">>), PName(NameB)>>)
SLink2 ==
    PLink(<<PName(NameA), PLinkN(<<"n", " ">>), PBody(<<"=", "=">>),
            PLinkN(<<"1", "?">>), PName(NameAA), PName(LblX)>>)
SLink3 ==
    PLink(<<PName(NameB), PLinkN(<<"1", "?", " ">>), PBody(<<"=">>),
            PLinkN(<<"n">>), PName(NameA)>>)
\* the pair after the destination is not a name: the label is dropped
SLink4 ==
    PLink(<<PName(NameB), PLinkN(<<"n", "?">>), PBody(<<"-">>),
            PLinkN(<<"1">>), PName(NameB), PBody(<<"x">>)>>)
\* no destination name
SNoTo ==
    PLink(<<PName(NameA), PLinkN(<<"1">>), PBody(<<"-", "-">>), PLinkN(<<"n">>)>>)
\* a cardinality where the source name should be
SBadTag ==
    PLink(<<PLinkN(<<"1">>), PLinkN(<<"1">>), PBody(<<"-", "-">>),
            PLinkN(<<"n">>), PName(NameB)>>)

GoodStmts == {SDefA, SDefB, SLink1, SLink2, SLink3, SLink4}
BadStmts == {SNoTo, SBadTag}
Stmts == GoodStmts \cup BadStmts

OldContent == <<Line("left by an earlier run", <<>>)>>

InitApp ==
    /\ tree \in {[status |-> "unreadable", pairs |-> <<>>],
                 [status |-> "rejected", pairs |-> <<>>]}
                \cup {[status |-> "parsed", pairs |-> ss \o <<PEoi>>] :
                        ss \in SeqsUpTo(Stmts, MaxStmts)}
    /\ args \in [mode : {"DER", "ORM"}, output : {"stdout", "file"}]
    /\ outFile \in IF args.output = "file" THEN {<<>>, <<OldContent>>} ELSE {<<>>}
    /\ pc = "start" /\ idx = 0 /\ links = <<>> /\ defs = <<>>
    /\ appRes = "none" /\ stdout = <<>>
    /\ IdleEmit /\ IdleWatch /\ IdleDot

\* read_to_string and MyParser::parse
ParseOpen ==
    /\ pc = "start"
    /\ IF tree.status = "parsed"
       THEN pc' = "loop" /\ idx' = 1 /\ appRes' = appRes
       ELSE /\ pc' = "done" /\ idx' = idx
            /\ appRes' = IF tree.status = "unreadable"
                         THEN "Failed to open input file"
                         ELSE "Failed to parse input file"
    /\ UNCHANGED <<tree, args, links, defs, outFile, stdout,
                   emitVars, watchVars, dotVars>>

\* one iteration of `for tk in doc.into_inner()`
ParseStep ==
    /\ pc = "loop"
    /\ LET r == ParseItem(tree.pairs[idx], links, defs)
       IN  /\ links' = r.links
           /\ defs' = r.defs
           /\ CASE r.res = "next" -> pc' = pc /\ idx' = idx + 1 /\ appRes' = appRes
                [] r.res = "break" -> pc' = "parsed" /\ idx' = idx /\ appRes' = appRes
                [] OTHER -> pc' = "done" /\ idx' = idx /\ appRes' = r.res
    /\ UNCHANGED <<tree, args, outFile, stdout, emitVars, watchVars, dotVars>>

\* None => emitter(&mut std::io::stdout(), &doc)
AppStdout ==
    /\ pc = "parsed" /\ args.output = "stdout"
    /\ \E order \in Orders, k \in SinkFailures :
         LET r == RunEmitter(emitter(args.mode, [links |-> links, defs |-> defs], order), k)
         IN  stdout' = r.out /\ appRes' = r.res
    /\ pc' = "done"
    /\ UNCHANGED <<tree, args, idx, links, defs, outFile, emitVars, watchVars, dotVars>>

\* std::fs::File::create(path)
AppCreate ==
    /\ pc = "parsed" /\ args.output = "file"
    /\ \E created \in BOOLEAN :
         IF created
         THEN outFile' = << <<>> >> /\ pc' = "created" /\ appRes' = appRes
         ELSE outFile' = outFile /\ pc' = "done" /\ appRes' = "IoErr"
    /\ UNCHANGED <<tree, args, idx, links, defs, stdout, emitVars, watchVars, dotVars>>

\* emitter(&mut out_file, &doc); the BufWriter is flushed when it is dropped
AppFile ==
    /\ pc = "created"
    /\ \E order \in Orders, k \in SinkFailures :
         LET r == RunEmitter(emitter(args.mode, [links |-> links, defs |-> defs], order), k)
         IN  outFile' = <<r.out>> /\ appRes' = r.res
    /\ pc' = "done"
    /\ UNCHANGED <<tree, args, idx, links, defs, stdout, emitVars, watchVars, dotVars>>

NextApp == ParseOpen \/ ParseStep \/ AppStdout \/ AppCreate \/ AppFile

SpecApp == InitApp /\ [][NextApp]_vars

---------------------------------------------------------------------------
(* Claims about parse_doc and app, checked under SpecApp *)

\* what app has written to the sink it was given
Output ==
    IF args.output = "stdout" THEN stdout
    ELSE IF outFile = <<>> THEN <<>> ELSE outFile[1]

SrcLinks == SelectSeq(tree.pairs, LAMBDA p : p.rule = "link")

SrcDefs == SelectSeq(tree.pairs, LAMBDA p : p.rule = "def")

SrcLinksFrom(name) == SelectSeq(SrcLinks, LAMBDA p : p.inner[1].text = name)

HasParsingError ==
    \/ tree.status = "rejected"
    \/ \E i \in DOMAIN tree.pairs : tree.pairs[i] \in BadStmts

DocBuilt ==
    \/ pc \in {"parsed", "created"}
    \/ pc = "done" /\ appRes \in {"Ok", "IoErr", "Panic"} /\ tree.status = "parsed"

\* the foreign-key column the spec gives for a destination name
FkColumn(to) ==
    CASE to = NameA -> <<"+", "a", "_", "i", "d">>
      [] to = NameB -> <<"+", "b", "_", "i", "d">>
      [] to = NameAA -> <<"+", "a", "_", "a", "_", "i", "d">>

\* the foreign-key row the spec gives for a relationship statement
FkRow(p) ==
    << IF \E i \in DOMAIN p.inner[3].text : p.inner[3].text[i] = "="
       THEN <<"f", "k", "_", "p", "k">> ELSE <<"f", "k">>,
       FkColumn(p.inner[5].text) >>

\* the foreign-key rows the spec gives for the table of an entity name
FkRows(name) ==
    [i \in 1..Len(SrcLinksFrom(name)) |-> FkRow(SrcLinksFrom(name)[i])]

IsFkRow(row) == row[1] \in {<<"f", "k">>, <<"f", "k", "_", "p", "k">>}

\* all rows of all complete tables of an ORM output
AllRows(out) ==
    Flatten([k \in 1..CountFmt(out, FmtTableEnd) |-> TableRows(TableBody(out, k))])

\* C4 as stated: in the ORM view every relationship produces exactly one
\* foreign-key row, in the table of its `from` entity, with right cell
\* +<to lowercased>_id and left cell fk_pk iff the arrow body contains `=`
\* (stated for the runs in which emit_orm returned Ok)
C4_OneFkRowPerLink ==
    (pc = "done" /\ args.mode = "ORM" /\ appRes = "Ok") =>
        /\ Len(SelectSeq(AllRows(Output), IsFkRow)) = Len(SrcLinks)
        /\ \A k \in 1..CountFmt(Output, FmtTableEnd) :
             LET rows == TableRows(TableBody(Output, k))
             IN  SelectSeq(rows, IsFkRow) = FkRows(SrcDefs[k].inner[1].text)

\* C4 as amended: every table emit_orm writes for an entity definition holds,
\* after the rows of its fields, one foreign-key row per relationship whose
\* `from` is the definition's name, in source order, with right cell
\* +<to lowercased>_id and left cell fk_pk iff the arrow body contains `=`
C4_FkRowsPerTable ==
    (pc = "done" /\ args.mode = "ORM") =>
        \A k \in 1..CountFmt(Output, FmtTableEnd) :
            LET rows == TableRows(TableBody(Output, k))
                nf == Len(SrcDefs[k].inner) - 1
            IN  /\ Len(rows) >= nf
                /\ SubSeq(rows, nf + 1, Len(rows))
                     = FkRows(SrcDefs[k].inner[1].text)

C4_Witness ==
    /\ pc = "done" /\ args.mode = "ORM" /\ appRes = "Ok"
    /\ \E i, j \in DOMAIN AllRows(Output) :
         /\ AllRows(Output)[i][1] = <<"f", "k">>
         /\ AllRows(Output)[j][1] = <<"f", "k", "_", "p", "k">>

\* C5: a parsing error (grammar rejection, structural mismatch, missing
\* sub-token) ends parse_doc with that error: no Doc is handed on, and app
\* writes nothing to standard output and neither creates nor truncates the
\* output file
C5_ParseErrorAborts ==
    HasParsingError =>
        /\ pc \in {"start", "loop", "done"}
        /\ stdout = <<>>
        /\ outFile \in {<<>>, <<OldContent>>}
        /\ pc = "done" =>
             appRes \in {"Failed to parse input file", "Missing",
                         "Expected name, got link_n"}
        /\ (pc = "done" /\ tree.status = "parsed"
              /\ \A i \in DOMAIN tree.pairs : tree.pairs[i] # SBadTag)
             => appRes = "Missing"

C5_Witness ==
    /\ pc = "done" /\ appRes = "Missing"
    /\ args.output = "file" /\ outFile = <<OldContent>>
    /\ Len(links) + Len(defs) = 2

StripSpaces(text) == SelectSeq(text, LAMBDA c : c # " ")

\* the display string the spec gives for a cardinality token
SpecDisplay(token) ==
    CASE token = <<"1">> -> <<"1">>
      [] token = <<"1", "?">> -> <<"(", "0", ",", "1", ")">>
      [] token = <<"n">> -> <<"(", "1", ",", "N", ")">>
      [] token = <<"n", "?">> -> <<"(", "0", ",", "N", ")">>

\* C6: the tokens 1, 1?, n, n? come out as 1, (0,1), (1,N), (0,N): on the
\* from and to edges of the DER view and on the edge of the ORM view; two
\* different tokens never come out as the same text
C6_CardinalityDisplay ==
    (pc = "done" /\ appRes = "Ok") =>
        LET shown(fmt, k) == Output[Positions(Output, fmt)[k]].args[3]
            fromTok(k) == StripSpaces(SrcLinks[k].inner[2].text)
            toTok(k) == StripSpaces(SrcLinks[k].inner[4].text)
        IN  IF args.mode = "DER"
            THEN /\ CountFmt(Output, FmtDerTail) = Len(SrcLinks)
                 /\ CountFmt(Output, FmtDerHead) = Len(SrcLinks)
                 /\ \A k \in 1..Len(SrcLinks) :
                      /\ shown(FmtDerTail, k) = SpecDisplay(fromTok(k))
                      /\ shown(FmtDerHead, k) = SpecDisplay(toTok(k))
                 /\ \A j, k \in 1..Len(SrcLinks) :
                      /\ shown(FmtDerTail, j) = shown(FmtDerHead, k)
                           => fromTok(j) = toTok(k)
                      /\ shown(FmtDerTail, j) = shown(FmtDerTail, k)
                           => fromTok(j) = fromTok(k)
            ELSE /\ CountFmt(Output, FmtOrmEdge) = Len(SrcLinks)
                 /\ \A k \in 1..Len(SrcLinks) :
                      shown(FmtOrmEdge, k) = SpecDisplay(toTok(k))
                 /\ \A j, k \in 1..Len(SrcLinks) :
                      shown(FmtOrmEdge, j) = shown(FmtOrmEdge, k)
                        => toTok(j) = toTok(k)

C6_Witness ==
    /\ pc = "done" /\ appRes = "Ok" /\ args.mode = "DER"
    /\ \E i, j \in DOMAIN tree.pairs :
         tree.pairs[i] = SLink1 /\ tree.pairs[j] = SLink2

\* C9: defs and links are in source order however the statements are
\* interleaved, fields keep their declared order, and an ORM table has the
\* rows of its fields in declared order followed by the foreign-key rows of
\* the entity's outgoing relationships in source order
C9_SourceOrder ==
    DocBuilt =>
        /\ Len(defs) = Len(SrcDefs)
        /\ Len(links) = Len(SrcLinks)
        /\ \A k \in 1..Len(SrcDefs) :
             /\ defs[k].name = SrcDefs[k].inner[1].text
             /\ Len(defs[k].fields) = Len(SrcDefs[k].inner) - 1
             /\ \A j \in 1..Len(defs[k].fields) :
                  /\ defs[k].fields[j].field_type = SrcDefs[k].inner[j + 1].inner[1].text
                  /\ defs[k].fields[j].name = SrcDefs[k].inner[j + 1].inner[2].text
        /\ \A k \in 1..Len(SrcLinks) :
             /\ links[k].from = SrcLinks[k].inner[1].text
             /\ links[k].to = SrcLinks[k].inner[5].text
        /\ (pc = "done" /\ appRes = "Ok" /\ args.mode = "ORM") =>
             /\ CountFmt(Output, FmtOrmNode) = Len(SrcDefs)
             /\ \A k \in 1..Len(SrcDefs) :
                  LET fieldCols == [j \in 1..(Len(SrcDefs[k].inner) - 1) |->
                                      <<"+">> \o SrcDefs[k].inner[j + 1].inner[2].text]
                      fkCols == [j \in 1..Len(FkRows(SrcDefs[k].inner[1].text)) |->
                                   FkRows(SrcDefs[k].inner[1].text)[j][2]]
                      rows == TableRows(TableBody(Output, k))
                  IN  [j \in 1..Len(rows) |-> rows[j][2]] = fieldCols \o fkCols

C9_Witness ==
    /\ pc = "done" /\ appRes = "Ok" /\ args.mode = "ORM"
    /\ tree.pairs = <<SLink1, SDefA, SLink2, PEoi>>

---------------------------------------------------------------------------
(* watch *)

\* parse_doc's loop, run to its end
RECURSIVE ParseAll(_, _, _)
ParseRest(r, rest) ==
    IF r.res = "next" THEN ParseAll(rest, r.links, r.defs) ELSE r

ParseAll(pairs, ls, ds) == ParseRest(ParseItem(Head(pairs), ls, ds), Tail(pairs))

\* app after parse_doc, with standard output as the sink
AppAfterParse(r, m, order) ==
    IF r.res # "break" THEN [res |-> r.res, out |-> <<>>]
    ELSE RunEmitter(emitter(m, [links |-> r.links, defs |-> r.defs], order), 0)

\* one call of app(&args)
AppOnce(file, m, order) ==
    IF file.status = "unreadable" THEN [res |-> "Failed to open input file", out |-> <<>>]
    ELSE IF file.status = "rejected" THEN [res |-> "Failed to parse input file", out |-> <<>>]
    ELSE AppAfterParse(ParseAll(file.pairs, <<>>, <<>>), m, order)

IsSubstring(needle, hay) ==
    \E i \in 0..(Len(hay) - Len(needle)) : SubSeq(hay, i + 1, i + Len(needle)) = needle

Inputs == { <<"a">>, <<".", "/", "a">> }

\* paths of the watched directory `.` as the watcher reports them
EventPaths == { <<".", "/", "a">>, <<".", "/", "a", "~">>, <<".", "/", "b">> }

EventKinds == {"create", "modify", "remove", "access"}

\* what the channel carries: Ok(Event) or Err
Events ==
    [kind : EventKinds, paths : {<<q>> : q \in EventPaths}]
    \cup {[kind |-> "error", paths |-> <<>>]}

Unreadable == [status |-> "unreadable", pairs |-> <<>>]

WatchContents ==
    { [status |-> "parsed", pairs |-> <<SDefA, SLink1, PEoi>>],
      [status |-> "parsed", pairs |-> <<SDefA, SNoTo, PEoi>>] }

\* the file the command line names
IsInputFile(q) ==
    LET strip(x) == IF Len(x) >= 2 /\ x[1] = "." /\ x[2] = "/"
                    THEN SubSeq(x, 3, Len(x)) ELSE x
    IN  strip(q) = strip(input)

InitWatch ==
    /\ wpc = "setup"
    /\ input \in Inputs
    /\ content \in WatchContents \cup {Unreadable}
    /\ mode \in {"DER", "ORM"}
    /\ rx = <<>> /\ sent = 0 /\ handled = <<>> /\ runs = <<>>
    /\ doc = [links |-> <<>>, defs |-> <<>>] /\ failAt = 0 /\ renders = <<>>
    /\ IdleApp /\ IdleDot

\* recommended_watcher(tx)?, watcher.watch(".")?, args.input.to_str()
WatchSetup ==
    /\ wpc = "setup"
    /\ \E ok \in BOOLEAN : wpc' = IF ok THEN "first" ELSE "done"
    /\ UNCHANGED <<input, content, rx, sent, handled, runs, emitVars, appVars, dotVars>>

RunLog(trigger, file, r) ==
    [trigger |-> trigger, content |-> file, res |-> r.res, out |-> r.out]

RunApp(trigger) ==
    \E order \in Orders :
        runs' = Append(runs, RunLog(trigger, content, AppOnce(content, mode, order)))

\* if let Err(e) = app(&args) { eprintln!(..) }
WatchFirst ==
    /\ wpc = "first"
    /\ RunApp([kind |-> "start", paths |-> <<>>])
    /\ wpc' = "recv"
    /\ UNCHANGED <<input, content, rx, sent, handled, emitVars, appVars, dotVars>>

\* the file system changes and the watcher thread sends what it saw
WatcherSend ==
    /\ wpc \in {"first", "recv"}
    /\ sent < MaxEvents
    /\ \E e \in Events :
         /\ rx' = Append(rx, e)
         /\ IF e.kind \in {"create", "modify"} /\ IsInputFile(e.paths[1])
            THEN content' \in WatchContents
            ELSE IF e.kind = "remove" /\ IsInputFile(e.paths[1])
                 THEN content' = Unreadable
                 ELSE content' = content
    /\ sent' = sent + 1
    /\ UNCHANGED <<wpc, input, handled, runs, emitVars, appVars, dotVars>>

\* one iteration of `for res in rx`
WatchIteration ==
    /\ wpc = "recv"
    /\ rx # <<>>
    /\ LET e == Head(rx)
       IN  /\ rx' = Tail(rx)
           /\ handled' = Append(handled, e)
           /\ IF e.kind = "error"
              THEN wpc' = "done" /\ runs' = runs
              ELSE IF ~(e.kind = "create" \/ e.kind = "modify")
              THEN wpc' = wpc /\ runs' = runs
              ELSE IF ~(\E i \in DOMAIN e.paths : IsSubstring(input, e.paths[i]))
              THEN wpc' = wpc /\ runs' = runs
              ELSE wpc' = wpc /\ RunApp(e)
    /\ UNCHANGED <<input, content, sent, emitVars, appVars, dotVars>>

NextWatch == WatchSetup \/ WatchFirst \/ WatcherSend \/ WatchIteration

SpecWatch == InitWatch /\ [][NextWatch]_vars

\* the events received so far that create or modify the input file
InputChanges ==
    SelectSeq(handled, LAMBDA e : /\ e.kind \in {"create", "modify"}
                                  /\ \E i \in DOMAIN e.paths : IsInputFile(e.paths[i]))

\* C8: the pipeline runs once at start and once more for every create or
\* modify event of the input path and for no other event; every run starts
\* from nothing (its outcome depends on the file alone); a failed run does
\* not end the loop
C8_WatchRuns ==
    /\ wpc \in {"recv"} => Len(runs) >= 1
    /\ \A i \in DOMAIN runs :
         IF i = 1 THEN runs[i].trigger.kind = "start"
         ELSE /\ runs[i].trigger.kind \in {"create", "modify"}
              /\ \E j \in DOMAIN runs[i].trigger.paths :
                   IsInputFile(runs[i].trigger.paths[j])
    /\ wpc \in {"recv"} => Len(runs) = 1 + Len(InputChanges)
    /\ \A i, j \in DOMAIN runs :
         runs[i].content = runs[j].content =>
             runs[i].res = runs[j].res /\ runs[i].out = runs[j].out
    /\ (wpc = "done" /\ runs # <<>>) =>
         (handled # <<>> /\ handled[Len(handled)].kind = "error")

---------------------------------------------------------------------------
(* app with Some(path): the output file, and `dot` for svg and png.        *)
(* A pipe holds at most PipeCap bytes: a write to a full pipe blocks, a    *)
(* read from an empty one blocks until the write end is closed.            *)

Bytes(tag, n) == [i \in 1..n |-> <<tag, i>>]

IsImage == ext \in {"svg", "png"}

InitDot ==
    /\ ext \in {"svg", "png", "dot", "none"}
    /\ graph \in {Bytes("g", n) : n \in 1..MaxGraph}
    /\ image \in {Bytes("i", n) : n \in 0..MaxImage}
    /\ dotSuccess \in BOOLEAN
    /\ apc = "create" /\ dpc = "idle"
    /\ nWritten = 0 /\ stdinPipe = <<>> /\ stdinOpen = FALSE /\ dotGot = <<>>
    /\ nDotWritten = 0 /\ stdoutPipe = <<>>
    /\ imgFile = <<>> /\ imgRes = "none"
    /\ IdleEmit /\ IdleApp /\ IdleWatch

dotState == <<dpc, stdinPipe, stdinOpen, dotGot, nDotWritten, stdoutPipe>>

\* std::fs::File::create(path).map(BufWriter::new)?
DotAppCreate ==
    /\ apc = "create"
    /\ \E created \in BOOLEAN :
         IF created
         THEN /\ imgFile' = << <<>> >>
              /\ apc' = IF IsImage THEN "spawn" ELSE "emit_file"
              /\ imgRes' = imgRes
         ELSE imgFile' = imgFile /\ apc' = "done" /\ imgRes' = "IoErr"
    /\ UNCHANGED <<ext, graph, image, dotSuccess, nWritten, dotState,
                   emitVars, appVars, watchVars>>

\* else { emitter(&mut out_file, &doc) }
DotAppEmitFile ==
    /\ apc = "emit_file"
    /\ imgFile' = <<graph>>
    /\ nWritten' = Len(graph)
    /\ apc' = "done" /\ imgRes' = "Ok"
    /\ UNCHANGED <<ext, graph, image, dotSuccess, dotState,
                   emitVars, appVars, watchVars>>

\* Command::new("dot")...spawn().context("dot not found. can't output images")?
DotAppSpawn ==
    /\ apc = "spawn"
    /\ \E found \in BOOLEAN :
         IF found
         THEN apc' = "emit" /\ dpc' = "reading" /\ stdinOpen' = TRUE /\ imgRes' = imgRes
         ELSE apc' = "done" /\ dpc' = dpc /\ stdinOpen' = stdinOpen
              /\ imgRes' = "dot not found"
    /\ UNCHANGED <<ext, graph, image, dotSuccess, nWritten, stdinPipe, dotGot,
                   nDotWritten, stdoutPipe, imgFile, emitVars, appVars, watchVars>>

\* emitter(&mut dot.stdin.take().unwrap(), &doc)?: one write into the pipe
DotAppWrite ==
    /\ apc = "emit"
    /\ nWritten < Len(graph)
    /\ Len(stdinPipe) < PipeCap
    /\ stdinPipe' = Append(stdinPipe, graph[nWritten + 1])
    /\ nWritten' = nWritten + 1
    /\ UNCHANGED <<ext, graph, image, dotSuccess, apc, dpc, stdinOpen, dotGot,
                   nDotWritten, stdoutPipe, imgFile, imgRes,
                   emitVars, appVars, watchVars>>

\* the emitter returns and the ChildStdin temporary is dropped
DotAppCloseStdin ==
    /\ apc = "emit"
    /\ nWritten = Len(graph)
    /\ stdinOpen' = FALSE
    /\ apc' = "wait"
    /\ UNCHANGED <<ext, graph, image, dotSuccess, nWritten, dpc, stdinPipe, dotGot,
                   nDotWritten, stdoutPipe, imgFile, imgRes,
                   emitVars, appVars, watchVars>>

\* if !dot.wait()?.success() { bail!("Dot failed.") }
DotAppWait ==
    /\ apc = "wait"
    /\ dpc = "exited"
    /\ IF dotSuccess THEN apc' = "copy" /\ imgRes' = imgRes
                     ELSE apc' = "done" /\ imgRes' = "Dot failed."
    /\ UNCHANGED <<ext, graph, image, dotSuccess, nWritten, dotState, imgFile,
                   emitVars, appVars, watchVars>>

\* std::io::copy(&mut cmd_output, &mut out_file)?: one read from the pipe
DotAppCopy ==
    /\ apc = "copy"
    /\ stdoutPipe # <<>>
    /\ imgFile' = <<Append(imgFile[1], Head(stdoutPipe))>>
    /\ stdoutPipe' = Tail(stdoutPipe)
    /\ UNCHANGED <<ext, graph, image, dotSuccess, nWritten, apc, dpc, stdinPipe,
                   stdinOpen, dotGot, nDotWritten, imgRes,
                   emitVars, appVars, watchVars>>

\* the read reports end of file: the pipe is empty and dot has exited
DotAppCopyEnd ==
    /\ apc = "copy"
    /\ stdoutPipe = <<>>
    /\ dpc = "exited"
    /\ apc' = "done" /\ imgRes' = "Ok"
    /\ UNCHANGED <<ext, graph, image, dotSuccess, nWritten, dotState, imgFile,
                   emitVars, appVars, watchVars>>

\* dot reads its standard input
DotRead ==
    /\ dpc = "reading"
    /\ stdinPipe # <<>>
    /\ dotGot' = Append(dotGot, Head(stdinPipe))
    /\ stdinPipe' = Tail(stdinPipe)
    /\ UNCHANGED <<ext, graph, image, dotSuccess, nWritten, apc, dpc, stdinOpen,
                   nDotWritten, stdoutPipe, imgFile, imgRes,
                   emitVars, appVars, watchVars>>

\* dot sees the end of its input and goes on to lay the graph out
DotReadEnd ==
    /\ dpc = "reading"
    /\ stdinPipe = <<>>
    /\ ~stdinOpen
    /\ dpc' = "writing"
    /\ UNCHANGED <<ext, graph, image, dotSuccess, nWritten, apc, stdinPipe, stdinOpen,
                   dotGot, nDotWritten, stdoutPipe, imgFile, imgRes,
                   emitVars, appVars, watchVars>>

\* dot writes the image to its standard output
DotWrite ==
    /\ dpc = "writing"
    /\ dotSuccess
    /\ nDotWritten < Len(image)
    /\ Len(stdoutPipe) < PipeCap
    /\ stdoutPipe' = Append(stdoutPipe, image[nDotWritten + 1])
    /\ nDotWritten' = nDotWritten + 1
    /\ UNCHANGED <<ext, graph, image, dotSuccess, nWritten, apc, dpc, stdinPipe,
                   stdinOpen, dotGot, imgFile, imgRes, emitVars, appVars, watchVars>>

\* dot exits: with everything written, or at once when it fails
DotExit ==
    /\ dpc = "writing"
    /\ ~dotSuccess \/ nDotWritten = Len(image)
    /\ dpc' = "exited"
    /\ UNCHANGED <<ext, graph, image, dotSuccess, nWritten, apc, stdinPipe, stdinOpen,
                   dotGot, nDotWritten, stdoutPipe, imgFile, imgRes,
                   emitVars, appVars, watchVars>>

NextDot ==
    \/ DotAppCreate \/ DotAppEmitFile \/ DotAppSpawn \/ DotAppWrite
    \/ DotAppCloseStdin \/ DotAppWait \/ DotAppCopy \/ DotAppCopyEnd
    \/ DotRead \/ DotReadEnd \/ DotWrite \/ DotExit

SpecDot == InitDot /\ [][NextDot]_vars

\* C10: with an svg or png output the run terminates whatever the amount of
\* graph text and of bytes dot writes (app is never left with no step to
\* take before it has returned); the graph text goes to dot's stdin and,
\* when dot exits successfully, the file holds exactly dot's bytes; with
\* any other extension the text goes to the file and dot is never started
C10_DotPipeline ==
    /\ apc = "done" \/ ENABLED NextDot
    /\ (IsImage /\ apc = "done" /\ imgRes = "Ok") =>
         dotGot = graph /\ imgFile = <<image>>
    /\ ~IsImage => dpc = "idle"
    /\ (~IsImage /\ apc = "done" /\ imgRes = "Ok") => imgFile = <<graph>>

====
